---------------------------- MODULE Spec2Model ----------------------------
(***************************************************************************)
(* State-machine model of the tower middleware decorators:                 *)
(*   - tower-filter    (Filter, ResponseFuture, ResponseInner, Counts)     *)
(*   - tower-reconnect (Reconnect, State, ResponseFuture)                  *)
(*   - tower-retry     (Retry, Policy, State, ResponseFuture)              *)
(*   - tower-discover  (List)                                              *)
(* Each component has its own specification over the shared variable       *)
(* tuple; the variables of the other component stay at their initial       *)
(* value.                                                                  *)
(***************************************************************************)
EXTENDS Integers, Sequences, FiniteSets, TLC

(***************************************************************************)
(* Bounds of the model.                                                    *)
(***************************************************************************)
\* `buffer` handed to Filter::new
Buffer == 2
\* number of Filter::call invocations explored
MaxReq == 3
\* number of NewService::new_service invocations explored
MaxCreate == 3
\* number of Reconnect::call invocations explored
MaxCalls == 2
\* largest number of retries the policy handed to Retry::new grants
MaxBudget == 3
\* number of Retry::call invocations explored
MaxExt == 2
\* longest list handed to List::new, and the number of distinct services in it
MaxList == 3
NumServices == 3
\* polls of a List explored after it yielded its last service
MaxIdlePolls == 2

VARIABLES
    \* ---- tower-filter ----
    rem,        \* Counts.rem, the remaining capacity (AtomicUsize)
    task,       \* Counts.task holds a registered task (AtomicTask)
    woken,      \* the task of Filter::poll_ready was notified since it last registered
    fpc,        \* position of the thread that owns the Filter (&mut self)
    lastReady,  \* what Filter::poll_ready returned last
    reqs,       \* the ResponseFutures returned by Filter::call, by request id
    \* ---- tower-reconnect ----
    rstate,     \* Reconnect.state: Idle, Connecting(future) or Connected(service)
    rpc,        \* "loop" inside Reconnect::poll_ready, "out" otherwise
    rret,       \* what Reconnect::poll_ready returned last
    created,    \* number of NewService::new_service invocations
    liveFuts,   \* the creation futures that exist (created and not yet dropped)
    failed,     \* the creation futures that resolved with an error
    stale,      \* the services whose poll_ready returned an error
    rresp,      \* the ResponseFutures returned by Reconnect::call, in call order
    innerCalls, \* number of invocations of a created service's call
    \* ---- tower-retry ----
    ryPolicy,   \* Retry.policy of the service instance
    ryFut,      \* the ResponseFuture of the current external call
    ryExt,      \* number of Retry::call invocations
    ryCalls,    \* inner Service::call invocations of the current external call
    ryInflight, \* inner call futures of the current external call not yet completed
    ryResults,  \* the results of its completed inner calls, in order
    ryConsulted,\* Policy::retry invocations of the current external call
    ryEnv,      \* what the policy and the inner service did during the external call
    ryLog,      \* the events of the current external call, in order
    ryTaken,    \* the retries taken by all external calls on the instance
    \* ---- tower-discover ----
    lsServices, \* the services handed to List::new, in order
    lsNext,     \* how many of them the iterator under Enumerate has yielded
    lsCount,    \* the counter of Enumerate
    lsOut       \* what List::poll returned, in order

filterVars == <<rem, task, woken, fpc, lastReady, reqs>>
reconnectVars == <<rstate, rpc, rret, created, liveFuts, failed, stale, rresp, innerCalls>>
retryVars == <<ryPolicy, ryFut, ryExt, ryCalls, ryInflight, ryResults, ryConsulted, ryEnv,
               ryLog, ryTaken>>
listVars == <<lsServices, lsNext, lsCount, lsOut>>
vars == <<filterVars, reconnectVars, retryVars, listVars>>

\* what a step of one component leaves alone
notFilterVars == <<reconnectVars, retryVars, listVars>>
notReconnectVars == <<filterVars, retryVars, listVars>>
notRetryVars == <<filterVars, reconnectVars, listVars>>
notListVars == <<filterVars, reconnectVars, retryVars>>

Requests == 1..MaxReq

\* Outcomes of polling a sub-future or the inner service's poll_ready:
\* Ok(Async::NotReady), Ok(Async::Ready(_)), Err(e)
Async == {"NotReady", "Ready", "Err"}

\* A request id that Filter::call has not used yet
Unused == [st |-> "unused", pc |-> "out", res |-> "none", first |-> "none",
           admitted |-> FALSE, checked |-> FALSE, readyPolled |-> FALSE,
           calls |-> 0, incs |-> 0, prev0 |-> FALSE, dropped |-> FALSE]

(***************************************************************************)
(* Filter::new                                                             *)
(***************************************************************************)
Filter_new ==
    /\ rem = Buffer
    /\ task = FALSE
    /\ woken = FALSE
    /\ fpc = "idle"
    /\ lastReady = "none"
    /\ reqs = [r \in Requests |-> Unused]

(***************************************************************************)
(* AtomicTask (futures 0.1): register stores the current task; notify      *)
(* takes the stored task, if any, and notifies it.                         *)
(***************************************************************************)
AtomicTask_register ==
    /\ task' = TRUE
    /\ woken' = FALSE

AtomicTask_notify ==
    /\ task' = FALSE
    /\ woken' = (woken \/ task)

(***************************************************************************)
(* Filter::poll_ready: register the task, then load the counter.           *)
(***************************************************************************)
Filter_poll_ready_register ==
    /\ fpc = "idle"
    /\ AtomicTask_register
    /\ fpc' = "pr_load"
    /\ UNCHANGED <<notFilterVars, rem, lastReady, reqs>>

poll_ready_result(v) == IF v = 0 THEN "NotReady" ELSE "Ready"

Filter_poll_ready_load ==
    /\ fpc = "pr_load"
    /\ lastReady' = poll_ready_result(rem)
    /\ fpc' = "idle"
    /\ UNCHANGED <<notFilterVars, rem, task, woken, reqs>>

(***************************************************************************)
(* Filter::call: load the counter; zero gives ResponseFuture{inner: None}; *)
(* otherwise fetch_sub(1), predicate.check(&request), clone the service    *)
(* and the counts, and return the future in State::Check.                  *)
(***************************************************************************)
NextReq == CHOOSE r \in Requests :
              /\ reqs[r].st = "unused"
              /\ \A q \in Requests : q < r => reqs[q].st # "unused"

\* Filter::call without the `rem == 0` early return
call_no_capacity_mutant(v) == FALSE

call_no_capacity(v) == v = 0

Filter_call_load ==
    /\ fpc = "idle"
    /\ \E r \in Requests : reqs[r].st = "unused"
    /\ IF call_no_capacity(rem)
       THEN /\ reqs' = [reqs EXCEPT ![NextReq] = [Unused EXCEPT !.st = "None"]]
            /\ fpc' = "idle"
       ELSE /\ fpc' = "call_sub"
            /\ reqs' = reqs
    /\ UNCHANGED <<notFilterVars, rem, task, woken, lastReady>>

\* Filter::call without the fetch_sub
Filter_call_fetch_sub_mutant ==
    /\ fpc = "call_sub"
    /\ rem' = rem
    /\ reqs' = [reqs EXCEPT ![NextReq] =
                   [Unused EXCEPT !.st = "Check", !.admitted = TRUE, !.checked = TRUE]]
    /\ fpc' = "idle"
    /\ UNCHANGED <<notFilterVars, task, woken, lastReady>>

Filter_call_fetch_sub ==
    /\ fpc = "call_sub"
    /\ rem' = rem - 1
    /\ reqs' = [reqs EXCEPT ![NextReq] =
                   [Unused EXCEPT !.st = "Check", !.admitted = TRUE, !.checked = TRUE]]
    /\ fpc' = "idle"
    /\ UNCHANGED <<notFilterVars, task, woken, lastReady>>

(***************************************************************************)
(* ResponseFuture::poll with inner = None                                  *)
(***************************************************************************)
ResponseFuture_poll_None(r) ==
    /\ reqs[r].st = "None"
    /\ ~reqs[r].dropped
    /\ reqs' = [reqs EXCEPT ![r].res = "NoCapacity", ![r].first = "NoCapacity"]
    /\ UNCHANGED <<notFilterVars, rem, task, woken, fpc, lastReady>>

(***************************************************************************)
(* ResponseInner::poll, one action per arm of the loop's match.  pc "out"  *)
(* is a future that is not being polled, "loop" the head of the loop       *)
(* inside a poll, "notify_ready" / "notify_err" the place in inc_rem       *)
(* between fetch_add and notify.  mem::replace leaves State::NoCapacity    *)
(* behind when an arm returns without storing a state.                     *)
(***************************************************************************)
AtLoop(r) ==
    /\ reqs[r].pc \in {"out", "loop"}
    /\ ~reqs[r].dropped
    /\ reqs[r].first \notin {"Ok", "InnerResponse"}

Resolve(q, result) ==
    [q EXCEPT !.pc = "out", !.res = result,
              !.first = IF q.first = "none" THEN result ELSE q.first]

\* the Check arm leaving the request to the WaitReady arm when it rejects
poll_Check_Err_mutant(q) == Resolve([q EXCEPT !.st = "WaitReady"], "Rejected")

\* Check arm, check.poll() = Err(e): return Err(Error::Rejected(e))
poll_Check_Err(q) == Resolve([q EXCEPT !.st = "NoCapacity"], "Rejected")

ResponseInner_poll_Check(r) ==
    /\ AtLoop(r)
    /\ reqs[r].st = "Check"
    /\ \E c \in Async :
          reqs' = [reqs EXCEPT ![r] =
                     CASE c = "Ready"    -> [@ EXCEPT !.st = "WaitReady", !.pc = "loop"]
                       [] c = "NotReady" -> [@ EXCEPT !.pc = "out"]
                       [] c = "Err"      -> poll_Check_Err(@)]
    /\ UNCHANGED <<notFilterVars, rem, task, woken, fpc, lastReady>>

\* inc_rem comparing the value after the increment instead of the one before
inc_rem_notifies_mutant(prev) == prev = 1

\* inc_rem, first half: rem.fetch_add(1, SeqCst), remembering `0 == previous`

inc_rem_notifies(prev) == prev = 0

inc_rem_fetch_add(r, q, at) ==
    /\ rem' = rem + 1
    /\ reqs' = [reqs EXCEPT ![r] =
                  [q EXCEPT !.incs = @ + 1, !.prev0 = inc_rem_notifies(rem), !.pc = at]]

\* inc_rem, second half: counts.task.notify() when the previous value was 0
inc_rem_notify(r) ==
    IF reqs[r].prev0 THEN AtomicTask_notify ELSE UNCHANGED <<task, woken>>

ResponseInner_poll_WaitReady(r) ==
    /\ AtLoop(r)
    /\ reqs[r].st = "WaitReady"
    /\ \E s \in Async :
          LET q == [reqs[r] EXCEPT !.readyPolled = TRUE] IN
          CASE s = "Ready"    -> inc_rem_fetch_add(r, [q EXCEPT !.st = "NoCapacity"],
                                                   "notify_ready")
            [] s = "NotReady" -> /\ reqs' = [reqs EXCEPT ![r] =
                                               [q EXCEPT !.pc = "out"]]
                                 /\ rem' = rem
            [] s = "Err"      -> inc_rem_fetch_add(r, [q EXCEPT !.st = "NoCapacity"],
                                                   "notify_err")
    /\ UNCHANGED <<notFilterVars, task, woken, fpc, lastReady>>

\* Ok(Ready) arm after fetch_add: notify, service.call(request), WaitResponse
ResponseInner_poll_WaitReady_call(r) ==
    /\ reqs[r].pc = "notify_ready"
    /\ inc_rem_notify(r)
    /\ reqs' = [reqs EXCEPT ![r] =
                  [@ EXCEPT !.st = "WaitResponse", !.calls = @ + 1, !.pc = "loop",
                            !.prev0 = FALSE]]
    /\ UNCHANGED <<notFilterVars, rem, fpc, lastReady>>

\* Err arm after fetch_add: notify, return Err(Error::Inner(e))
ResponseInner_poll_WaitReady_err(r) ==
    /\ reqs[r].pc = "notify_err"
    /\ inc_rem_notify(r)
    /\ reqs' = [reqs EXCEPT ![r] = Resolve([@ EXCEPT !.prev0 = FALSE], "Inner")]
    /\ UNCHANGED <<notFilterVars, rem, fpc, lastReady>>

ResponseInner_poll_WaitResponse(r) ==
    /\ AtLoop(r)
    /\ reqs[r].st = "WaitResponse"
    /\ \E p \in Async :
          reqs' = [reqs EXCEPT ![r] =
                     CASE p = "Ready"    -> Resolve(@, "Ok")
                       [] p = "NotReady" -> [@ EXCEPT !.pc = "out"]
                       [] p = "Err"      -> Resolve(@, "InnerResponse")]
    /\ UNCHANGED <<notFilterVars, rem, task, woken, fpc, lastReady>>

ResponseInner_poll_NoCapacity(r) ==
    /\ AtLoop(r)
    /\ reqs[r].st = "NoCapacity"
    /\ reqs' = [reqs EXCEPT ![r] = Resolve(@, "NoCapacity")]
    /\ UNCHANGED <<notFilterVars, rem, task, woken, fpc, lastReady>>

(***************************************************************************)
(* Dropping a ResponseFuture that is not being polled.  Neither            *)
(* ResponseFuture nor ResponseInner implements Drop: the fields are        *)
(* released and Counts.rem is left as it is.                               *)
(***************************************************************************)
ResponseFuture_drop(r) ==
    /\ reqs[r].st \in {"Check", "WaitReady", "WaitResponse"}
    /\ reqs[r].pc = "out"
    /\ ~reqs[r].dropped
    /\ reqs[r].first = "none"
    /\ reqs' = [reqs EXCEPT ![r].dropped = TRUE]
    /\ UNCHANGED <<notFilterVars, rem, task, woken, fpc, lastReady>>

FilterNext ==
    \/ Filter_poll_ready_register
    \/ Filter_poll_ready_load
    \/ Filter_call_load
    \/ Filter_call_fetch_sub
    \/ \E r \in Requests : ResponseFuture_poll_None(r)
    \/ \E r \in Requests : ResponseInner_poll_Check(r)
    \/ \E r \in Requests : ResponseInner_poll_WaitReady(r)
    \/ \E r \in Requests : ResponseInner_poll_WaitReady_call(r)
    \/ \E r \in Requests : ResponseInner_poll_WaitReady_err(r)
    \/ \E r \in Requests : ResponseInner_poll_WaitResponse(r)
    \/ \E r \in Requests : ResponseInner_poll_NoCapacity(r)
    \/ \E r \in Requests : ResponseFuture_drop(r)

(***************************************************************************)
(* Properties of tower-filter                                              *)
(***************************************************************************)
\* admitted by Filter::call (counter decremented), not dropped, not resolved
NotCompleted == {r \in Requests : /\ reqs[r].admitted
                                  /\ ~reqs[r].dropped
                                  /\ reqs[r].first = "none"}

\* predicate check running, or waiting for the inner service's readiness
Gated == {r \in Requests : /\ ~reqs[r].dropped
                           /\ reqs[r].st \in {"Check", "WaitReady"}}

InIncRem == {r \in Requests : reqs[r].pc \in {"notify_ready", "notify_err"}}

C2_RestoredExactlyOnce ==
    \A r \in Requests :
        (/\ reqs[r].admitted
         /\ reqs[r].pc = "out"
         /\ reqs[r].first \in {"Ok", "Rejected", "Inner", "InnerResponse"})
        => reqs[r].incs = 1

\* C3: an admitted request whose future was dropped in Check, WaitReady or
\* WaitResponse has released its slot.
C3_DropReleasesSlot ==
    \A r \in Requests : reqs[r].dropped => reqs[r].incs = 1

\* C4: whenever no atomic step of call or inc_rem is half done, the counter
\* plus the number of admitted requests whose future has not resolved equals
\* Buffer.
C4_Conservation ==
    (fpc # "call_sub" /\ InIncRem = {})
    => rem + Cardinality(NotCompleted) = Buffer

C5_NoCapacityFuture ==
    \A r \in Requests :
        reqs[r].st = "None"
        => /\ ~reqs[r].admitted
           /\ ~reqs[r].checked
           /\ ~reqs[r].readyPolled
           /\ reqs[r].calls = 0
           /\ reqs[r].incs = 0
           /\ reqs[r].first \in {"none", "NoCapacity"}

C5_CallStep ==
    \A r \in Requests :
        (reqs[r].st = "unused" /\ reqs'[r].st # "unused")
        => /\ rem = 0 => (reqs'[r].st = "None" /\ rem' = rem)
           /\ reqs'[r].st = "None" => rem = 0

\* C5: a Filter::call that loads a zero counter returns the future with
\* inner = None and leaves the counter unchanged (and only such a call returns
\* that future); that future never had the predicate or the inner service
\* invoked, never touches the counter and resolves with Error::NoCapacity.
C5_CallAtZero == [](C5_NoCapacityFuture) /\ [][C5_CallStep]_vars

C5_Witness ==
    \E r \in Requests : reqs[r].st = "None" /\ reqs[r].first = "NoCapacity"

Parked == fpc = "idle" /\ lastReady = "NotReady"

PendingNotify == \E r \in InIncRem : reqs[r].prev0

C6_Parked == (Parked /\ rem > 0) => (woken \/ PendingNotify)

C6_Step ==
    /\ \A r \in Requests :
          (reqs[r].prev0 /\ ~reqs'[r].prev0 /\ task) => woken'
    /\ rem' < rem => fpc = "call_sub"
    /\ (fpc = "pr_load" /\ fpc' = "idle" /\ rem > 0) => lastReady' = "Ready"

\* C6: no wake-up is lost.  While the task of poll_ready is parked on
\* NotReady and the counter is non-zero, the task has been notified or an
\* inc_rem that read zero is about to notify; that notify wakes the task
\* registered at that moment; the counter only goes down in Filter::call, and
\* a poll_ready that loads a non-zero counter reports Ready.
C6_NoLostWakeup == [](C6_Parked) /\ [][C6_Step]_vars

\* poll_ready returned NotReady and was then woken by an increment from zero
C6_Witness == Parked /\ woken /\ rem > 0 /\ ~PendingNotify

C17_State ==
    \A r \in Requests :
        /\ reqs[r].calls <= 1
        /\ reqs[r].calls = 1 => (reqs[r].checked /\ reqs[r].readyPolled /\ reqs[r].incs = 1)
        /\ reqs[r].first = "Rejected"
           => (~reqs[r].readyPolled /\ reqs[r].calls = 0 /\ reqs[r].st = "NoCapacity")

C17_Step ==
    \A r \in Requests :
        /\ reqs'[r].calls # reqs[r].calls
           => (reqs[r].pc = "notify_ready" /\ reqs'[r].st = "WaitResponse")
        /\ (reqs'[r].pc = "notify_ready" /\ reqs[r].pc # "notify_ready")
           => reqs[r].st = "WaitReady"
        /\ (reqs'[r].st = "WaitReady" /\ reqs[r].st # "WaitReady")
           => (reqs[r].st = "Check" /\ reqs[r].first = "none")
        /\ (reqs'[r].first = "Rejected" /\ reqs[r].first # "Rejected")
           => reqs[r].st = "Check"

\* C17: the inner service's call is invoked at most once per admitted
\* request, from the Ready arm of WaitReady, which is entered only from Check
\* when the predicate approved; a request the predicate rejected resolves
\* with Error::Rejected, from Check, and never has the inner service's
\* poll_ready or call invoked, however often its future is polled.
C17_CallAfterApprovalAndReadiness == [](C17_State) /\ [][C17_Step]_vars

\* a rejected request was polled again
C17_Witness ==
    \E r \in Requests : reqs[r].first = "Rejected" /\ reqs[r].res = "NoCapacity"

\* C21: for a Filter built with buffer N the counter stays within 0..N: the
\* fetch_sub of Filter::call is only reached with a counter of at least 1 and
\* no request performs more than one increment, re-polled futures that
\* already returned an error included.
C21_CounterInRange ==
    /\ rem \in 0..Buffer
    /\ fpc = "call_sub" => rem >= 1
    /\ \A r \in Requests : reqs[r].incs <= 1

\* a call has observed a counter of zero, and a future that returned an
\* inner error after its increment has been polled again
C21_Witness ==
    /\ rem = 1
    /\ \E r \in Requests : reqs[r].st = "None"
    /\ \E r \in Requests :
          reqs[r].first = "Inner" /\ reqs[r].res = "NoCapacity" /\ reqs[r].incs = 1

\* no call is under way, no future was dropped or is inside a poll, and
\* every admitted request has resolved
Settled ==
    /\ fpc # "call_sub"
    /\ \A r \in Requests :
          /\ ~reqs[r].dropped
          /\ reqs[r].pc = "out"
          /\ reqs[r].admitted => reqs[r].first # "none"

\* C24: when from some point on every admitted request has resolved, with
\* any outcome, and no request is admitted any more, the counter is
\* eventually back at Buffer for good and poll_ready reports ready.
C24_CapacityNeverLost == <>[]Settled => <>[](rem = Buffer /\ lastReady = "Ready")

(***************************************************************************)
(* tower-reconnect                                                         *)
(***************************************************************************)
Idle == [tag |-> "Idle", id |-> 0]
Connecting(f) == [tag |-> "Connecting", id |-> f]
\* the service produced by creation future f
Connected(f) == [tag |-> "Connected", id |-> f]

NoRet == [kind |-> "none", err |-> 0]
Ret(k) == [kind |-> k, err |-> 0]
\* Err(Error::Connect(e)), e the error of creation future f
ErrConnect(f) == [kind |-> "Connect", err |-> f]
\* Err(Error::Inner(e)), e the readiness error of service f
ErrInner(f) == [kind |-> "Inner", err |-> f]

\* Reconnect::new
Reconnect_new ==
    /\ rstate = Idle
    /\ rpc = "out"
    /\ rret = NoRet
    /\ created = 0
    /\ liveFuts = {}
    /\ failed = {}
    /\ stale = {}
    /\ rresp = <<>>
    /\ innerCalls = 0

\* `self.state = new`: the value held before is dropped
SetState(new) ==
    /\ rstate' = new
    /\ liveFuts' = (liveFuts \ (IF rstate.tag = "Connecting" THEN {rstate.id} ELSE {}))
                      \cup (IF new.tag = "Connecting" THEN {new.id} ELSE {})

\* the match arm that starts a creation, taken for Connected states as well
poll_ready_matches_Idle_mutant(s) == s.tag # "Connecting"

\* `match self.state { Idle => ...`
poll_ready_matches_Idle(s) == s.tag = "Idle"

\* Idle arm: new_service(), state = Connecting(fut), continue
Reconnect_poll_ready_Idle ==
    /\ poll_ready_matches_Idle(rstate)
    /\ created < MaxCreate
    /\ created' = created + 1
    /\ SetState(Connecting(created + 1))
    /\ rpc' = "loop"
    /\ UNCHANGED <<notReconnectVars, rret, failed, stale, rresp, innerCalls>>

\* the Err arm of Connecting leaving the failed future in place
poll_ready_Connecting_Err_mutant(s) == [state |-> s, ret |-> ErrConnect(s.id), pc |-> "out"]

\* Connecting arm, f.poll() = Err(e): state = Idle; ret = Err(Error::Connect(e)); break
poll_ready_Connecting_Err(s) == [state |-> Idle, ret |-> ErrConnect(s.id), pc |-> "out"]

\* Connecting arm: poll the creation future
Reconnect_poll_ready_Connecting ==
    /\ rstate.tag = "Connecting"
    /\ \E o \in Async :
          CASE o = "Ready"    -> /\ SetState(Connected(rstate.id))
                                 /\ rpc' = "loop"
                                 /\ UNCHANGED <<rret, failed>>
            [] o = "NotReady" -> /\ rret' = Ret("NotReady")
                                 /\ rpc' = "out"
                                 /\ UNCHANGED <<rstate, liveFuts, failed>>
            [] o = "Err"      -> LET e == poll_ready_Connecting_Err(rstate) IN
                                 /\ SetState(e.state)
                                 /\ rret' = e.ret
                                 /\ rpc' = e.pc
                                 /\ failed' = failed \cup {rstate.id}
    /\ UNCHANGED <<notReconnectVars, created, stale, rresp, innerCalls>>

\* the Err arm of Connected returning the inner error to the caller
poll_ready_Connected_Err_mutant(s, ret) == [state |-> Idle, ret |-> ErrInner(s.id), pc |-> "out"]

\* Connected arm, inner.poll_ready() = Err(_): state = Idle, and the loop goes on
poll_ready_Connected_Err(s, ret) == [state |-> Idle, ret |-> ret, pc |-> "loop"]

\* Connected arm: poll the service's readiness
Reconnect_poll_ready_Connected ==
    /\ rstate.tag = "Connected"
    /\ \E o \in Async :
          CASE o = "Ready"    -> /\ rret' = Ret("Ready")
                                 /\ rpc' = "out"
                                 /\ UNCHANGED <<rstate, liveFuts, stale>>
            [] o = "NotReady" -> /\ rret' = Ret("NotReady")
                                 /\ rpc' = "out"
                                 /\ UNCHANGED <<rstate, liveFuts, stale>>
            [] o = "Err"      -> LET e == poll_ready_Connected_Err(rstate, rret) IN
                                 /\ SetState(e.state)
                                 /\ rret' = e.ret
                                 /\ rpc' = e.pc
                                 /\ stale' = stale \cup {rstate.id}
    /\ UNCHANGED <<notReconnectVars, created, failed, rresp, innerCalls>>

\* Reconnect::call treating every state but Idle as connected
call_matches_Connected_mutant(s) == s.tag # "Idle"

\* `match self.state { Connected(ref mut service) => service, _ => return ... }`
call_matches_Connected(s) == s.tag = "Connected"

\* Reconnect::call, between two invocations of poll_ready
Reconnect_call ==
    /\ rpc = "out"
    /\ Len(rresp) < MaxCalls
    /\ IF call_matches_Connected(rstate)
       THEN /\ rresp' = Append(rresp, [inner |-> TRUE, svc |-> rstate.id, res |-> "none"])
            /\ innerCalls' = innerCalls + 1
       ELSE /\ rresp' = Append(rresp, [inner |-> FALSE, svc |-> 0, res |-> "none"])
            /\ innerCalls' = innerCalls
    /\ UNCHANGED <<notReconnectVars, rstate, rpc, rret, created, liveFuts, failed, stale>>

\* ResponseFuture::poll of tower-reconnect
Reconnect_ResponseFuture_poll(i) ==
    /\ rresp[i].res \in {"none", "NotReady"}
    /\ IF rresp[i].inner
       THEN \E o \in Async :
               rresp' = [rresp EXCEPT ![i].res =
                           CASE o = "Ready"    -> "Ok"
                             [] o = "NotReady" -> "NotReady"
                             [] o = "Err"      -> "Error_Inner"]
       ELSE rresp' = [rresp EXCEPT ![i].res = "Error_NotReady"]
    /\ UNCHANGED <<notReconnectVars, rstate, rpc, rret, created, liveFuts, failed, stale,
                   innerCalls>>

\* Idle arm once MaxCreate creations have been told apart: the creations
\* after them share the identity MaxCreate, and the loop goes on as before
Reconnect_poll_ready_Idle_again ==
    /\ poll_ready_matches_Idle(rstate)
    /\ created = MaxCreate
    /\ SetState(Connecting(MaxCreate))
    /\ rpc' = "loop"
    /\ UNCHANGED <<notReconnectVars, rret, created, failed, stale, rresp, innerCalls>>

\* the steps of Reconnect::poll_ready
Reconnect_poll_ready ==
    \/ Reconnect_poll_ready_Idle
    \/ Reconnect_poll_ready_Idle_again
    \/ Reconnect_poll_ready_Connecting
    \/ Reconnect_poll_ready_Connected

ReconnectNext ==
    \/ Reconnect_poll_ready_Idle
    \/ Reconnect_poll_ready_Connecting
    \/ Reconnect_poll_ready_Connected
    \/ Reconnect_call
    \/ \E i \in 1..Len(rresp) : Reconnect_ResponseFuture_poll(i)

(***************************************************************************)
(* Properties of tower-reconnect                                           *)
(***************************************************************************)
\* a step of Reconnect::poll_ready: neither call nor a response future's poll
PollReadyStep == rresp' = rresp /\ reconnectVars' # reconnectVars

C7_State ==
    /\ rstate.tag \in {"Idle", "Connecting", "Connected"}
    /\ Cardinality(liveFuts) <= 1
    /\ liveFuts = (IF rstate.tag = "Connecting" THEN {rstate.id} ELSE {})

C7_Step ==
    created' # created
    => /\ rstate.tag = "Idle"
       /\ liveFuts = {}
       /\ created' = created + 1
       /\ rstate' = Connecting(created')

\* C7: one of Idle, Connecting, Connected is held; a creation future exists
\* only as the one held by Connecting, so at most one is pending; and
\* new_service is invoked only in state Idle, never while a creation is
\* pending or a service is connected.
C7_CreationOnlyFromIdle == [](C7_State) /\ [][C7_Step]_vars

\* a second creation is pending after the first one was used up
C7_Witness == rstate.tag = "Connecting" /\ created >= 2 /\ liveFuts = {created}

C8_State ==
    (rpc = "out" /\ rret.kind = "Connect")
    => /\ rstate = Idle
       /\ rret.err \in failed

C8_Step ==
    /\ failed' # failed
       => /\ rstate.tag = "Connecting"
          /\ failed' = failed \cup {rstate.id}
          /\ rret' = ErrConnect(rstate.id)
          /\ rpc' = "out"
          /\ rstate' = Idle
    /\ (rpc = "out" /\ rret.kind = "Connect" /\ PollReadyStep)
       => /\ created' = created + 1
          /\ rstate' = Connecting(created')
          /\ created' \notin failed'
          /\ rpc' = "loop"

\* C8: when the creation future fails, that poll_ready returns Error::Connect
\* with the creation error and leaves the state Idle; the first step of the
\* next poll_ready is a new_service call whose future is not the failed one.
C8_FreshCreationAfterFailure == [](C8_State) /\ [][C8_Step]_vars

\* the poll_ready after a failed creation has started a fresh creation
C8_Witness ==
    /\ rret.kind = "Connect"
    /\ rpc = "loop"
    /\ rstate.tag = "Connecting"
    /\ rstate.id \notin failed
    /\ rret.err \in failed

C9_State == rret.kind \in {"none", "Ready", "NotReady", "Connect"}

C9_Step ==
    /\ stale' # stale
       => /\ rstate.tag = "Connected"
          /\ rstate' = Idle
          /\ rpc' = "loop"
          /\ rret' = rret
    /\ (rpc = "loop" /\ rstate = Idle /\ PollReadyStep)
       => /\ created' = created + 1
          /\ rstate' = Connecting(created')

\* C9: poll_ready only returns Ready, NotReady or Error::Connect; when the
\* connected service's poll_ready fails, the state reverts to Idle, the
\* invocation goes on without returning, and its next step starts a creation.
C9_InnerReadinessErrorHidden == [](C9_State) /\ [][C9_Step]_vars

\* a service failed its readiness check and the same poll_ready is reconnecting
C9_Witness ==
    /\ rpc = "loop"
    /\ rstate.tag = "Connecting"
    /\ rstate.id - 1 \in stale
    /\ rret.kind = "Ready"

C10_State ==
    \A i \in 1..Len(rresp) :
        ~rresp[i].inner => /\ rresp[i].res \in {"none", "Error_NotReady"}
                           /\ rresp[i].svc = 0

C10_Step ==
    /\ Len(rresp') # Len(rresp)
       => /\ rresp' = Append(rresp, rresp'[Len(rresp')])
          /\ <<rstate, rpc, rret, created, liveFuts>>' = <<rstate, rpc, rret, created, liveFuts>>
          /\ rstate.tag \in {"Idle", "Connecting"}
             => (~rresp'[Len(rresp')].inner /\ innerCalls' = innerCalls)
    /\ innerCalls' # innerCalls
       => /\ rstate.tag = "Connected"
          /\ Len(rresp') = Len(rresp) + 1
          /\ rresp'[Len(rresp')].inner
          /\ rresp'[Len(rresp')].svc = rstate.id

\* C10: a call in state Idle or Connecting returns the future with
\* inner = None, which resolves with Error::NotReady; the call invokes no
\* inner service, starts no creation and leaves the state as it is; a
\* service's call is invoked only in state Connected.
C10_CallWhenNotConnected == [](C10_State) /\ [][C10_Step]_vars

\* a call made while Connecting resolved with Error::NotReady
C10_Witness ==
    /\ rstate.tag = "Connecting"
    /\ \E i \in 1..Len(rresp) : ~rresp[i].inner /\ rresp[i].res = "Error_NotReady"
    /\ innerCalls = 0

\* C22: every invocation of Reconnect::poll_ready that has entered its loop
\* returns, whatever the factory and the created services do.
C22_PollReadyTerminates == (rpc = "loop") ~> (rpc = "out")

(***************************************************************************)
(* tower-retry                                                             *)
(***************************************************************************)
\* Result<S::Response, S::Error> of the n-th inner call of an external call
CallOk(n) == [kind |-> "Ok", n |-> n]
CallErr(n) == [kind |-> "Err", n |-> n]
\* the error of the inner service's poll_ready polled before the n-th call
ReadyErr(n) == [kind |-> "ReadyErr", n |-> n]
NoResult == [kind |-> "none", n |-> 0]
Pending == [kind |-> "NotReady", n |-> 0]

\* A policy: it grants `budget` more retries, on errors and, with onOk, on
\* responses as well.
Policies == [budget : 0..MaxBudget, onOk : BOOLEAN]

\* Policy::retry returns Some(future)
Policy_retry(pol, result) == pol.budget > 0 /\ (result.kind = "Err" \/ pol.onOk)

\* the policy the future returned by Policy::retry resolves to
Policy_next(pol) == [pol EXCEPT !.budget = @ - 1]

NoFuture == [state |-> "none", request |-> FALSE, policy |-> [budget |-> 0, onOk |-> FALSE],
             pending |-> NoResult, pc |-> "out", ret |-> NoResult]

NoEnv == [cloneSome |-> 0, cloneNone |-> 0, decisionErr |-> FALSE, readyErr |-> FALSE]

\* Retry::new(policy, service)
Retry_new(policy) ==
    /\ ryPolicy = policy
    /\ ryFut = NoFuture
    /\ ryExt = 0
    /\ ryCalls = 0
    /\ ryInflight = 0
    /\ ryResults = <<>>
    /\ ryConsulted = 0
    /\ ryEnv = NoEnv
    /\ ryLog = <<>>
    /\ ryTaken = 0

RetryResolved == ryFut.ret.kind \in {"Ok", "Err", "ReadyErr"}

\* Policy::clone_request returned c (TRUE: Some(request))
Cloned(env, c) ==
    IF c THEN [env EXCEPT !.cloneSome = @ + 1] ELSE [env EXCEPT !.cloneNone = @ + 1]

\* Retry::call: clone_request, service.call(request), self.clone()
Retry_call ==
    /\ ryFut.state = "none" \/ RetryResolved
    /\ ryExt < MaxExt
    /\ \E c \in BOOLEAN :
          /\ ryFut' = [NoFuture EXCEPT !.state = "Called", !.request = c,
                                       !.policy = ryPolicy]
          /\ ryEnv' = Cloned(NoEnv, c)
    /\ ryExt' = ryExt + 1
    /\ ryCalls' = 1
    /\ ryInflight' = 1
    /\ ryResults' = <<>>
    /\ ryConsulted' = 0
    /\ ryLog' = <<"call">>
    /\ UNCHANGED <<notRetryVars, ryPolicy, ryTaken>>

\* ResponseFuture::poll is at the head of its loop
RetryAtLoop == ryFut.state # "none" /\ ~RetryResolved

\* `return x`
RetryReturn(f, x) == [f EXCEPT !.ret = x, !.pc = "out"]

\* the Called arm returning every result without consulting the policy
poll_Called_next_never(f, result) == RetryReturn(f, result)

\* the Called arm consulting the policy although no clone of the request is held
poll_Called_next_unchecked(f, result) ==
    IF Policy_retry(f.policy, result)
    THEN [f EXCEPT !.state = "Checking", !.pending = result, !.pc = "loop"]
    ELSE RetryReturn(f, result)

\* Called arm once the inner future completed with `result`
poll_Called_next(f, result) ==
    IF f.request
    THEN IF Policy_retry(f.policy, result)
         THEN [f EXCEPT !.state = "Checking", !.pending = result, !.pc = "loop"]
         ELSE RetryReturn(f, result)
    ELSE RetryReturn(f, result)

Retry_poll_Called ==
    /\ RetryAtLoop
    /\ ryFut.state = "Called"
    /\ \E o \in Async :
          IF o = "NotReady"
          THEN /\ ryFut' = RetryReturn(ryFut, Pending)
               /\ UNCHANGED <<ryInflight, ryResults, ryConsulted, ryLog>>
          ELSE LET result == IF o = "Ready" THEN CallOk(ryCalls) ELSE CallErr(ryCalls)
                   next == poll_Called_next(ryFut, result)
               IN /\ ryFut' = next
                  /\ ryInflight' = ryInflight - 1
                  /\ ryResults' = Append(ryResults, result)
                  /\ ryConsulted' = IF ryFut.request THEN ryConsulted + 1 ELSE ryConsulted
                  /\ ryLog' = ryLog \o (IF next.state = "Checking"
                                        THEN <<"result", "retry">> ELSE <<"result">>)
    /\ UNCHANGED <<notRetryVars, ryPolicy, ryExt, ryCalls, ryEnv, ryTaken>>

\* the Checking arm without `self.retry.policy = policy`
poll_Checking_Ready_keeps(f) ==
    [f EXCEPT !.state = "Retrying", !.pending = NoResult, !.pc = "loop"]

\* Checking arm, the decision future resolved with a policy
poll_Checking_Ready(f) ==
    [f EXCEPT !.policy = Policy_next(f.policy), !.state = "Retrying",
              !.pending = NoResult, !.pc = "loop"]

\* the Checking arm writing the new policy to the Retry that was called
poll_Checking_Ready_shared(pol, f) == f.policy

\* the policy of the Retry on which call was invoked, after the Checking arm
\* assigned self.retry.policy in the future f: the future holds a clone
poll_Checking_Ready_instance(pol, f) == pol

\* the Checking arm answering a failed decision with an error of its own
poll_Checking_Err_synthetic(f) == RetryReturn([f EXCEPT !.pending = NoResult], CallErr(0))

\* the Checking arm spending the policy although the decision failed
poll_Checking_Err_spends(f) ==
    RetryReturn([f EXCEPT !.pending = NoResult, !.policy = Policy_next(f.policy)], f.pending)

\* Checking arm, the decision future failed: result.take().expect(..)
poll_Checking_Err(f) == RetryReturn([f EXCEPT !.pending = NoResult], f.pending)

Retry_poll_Checking ==
    /\ RetryAtLoop
    /\ ryFut.state = "Checking"
    /\ \E o \in Async :
          CASE o = "NotReady" -> /\ ryFut' = RetryReturn(ryFut, Pending)
                                 /\ UNCHANGED <<ryPolicy, ryEnv, ryLog, ryTaken>>
            [] o = "Ready"    -> /\ ryFut' = poll_Checking_Ready(ryFut)
                                 /\ ryPolicy' = poll_Checking_Ready_instance(ryPolicy, ryFut')
                                 /\ ryLog' = Append(ryLog, "decided")
                                 /\ ryTaken' = ryTaken + 1
                                 /\ UNCHANGED ryEnv
            [] o = "Err"      -> /\ ryFut' = poll_Checking_Err(ryFut)
                                 /\ ryEnv' = [ryEnv EXCEPT !.decisionErr = TRUE]
                                 /\ UNCHANGED <<ryPolicy, ryLog, ryTaken>>
    /\ UNCHANGED <<notRetryVars, ryExt, ryCalls, ryInflight, ryResults, ryConsulted>>

\* the Retrying arm keeping a request although clone_request returned None
poll_Retrying_Ready_keeps(f, c) ==
    [f EXCEPT !.request = TRUE, !.state = "Called", !.pc = "loop"]

\* the Retrying arm issuing a second, speculative call
poll_Retrying_calls_twice(f, c) == 2

\* Retrying arm after poll_ready returned Ready: the held request is taken
\* and called, and clone_request (returning c) refills self.request
poll_Retrying_Ready(f, c) ==
    [f EXCEPT !.request = c, !.state = "Called", !.pc = "loop"]

\* number of inner calls the Retrying arm issues once poll_ready is Ready
poll_Retrying_calls(f, c) == 1

Retry_poll_Retrying ==
    /\ RetryAtLoop
    /\ ryFut.state = "Retrying"
    /\ \E o \in Async :
          CASE o = "NotReady" -> /\ ryFut' = RetryReturn(ryFut, Pending)
                                 /\ UNCHANGED <<ryCalls, ryInflight, ryEnv, ryLog>>
            [] o = "Err"      -> /\ ryFut' = RetryReturn(ryFut, ReadyErr(ryCalls + 1))
                                 /\ ryEnv' = [ryEnv EXCEPT !.readyErr = TRUE]
                                 /\ UNCHANGED <<ryCalls, ryInflight, ryLog>>
            [] o = "Ready"    -> \E c \in BOOLEAN :
                                 /\ ryCalls <= MaxBudget
                                 /\ ryFut' = poll_Retrying_Ready(ryFut, c)
                                 /\ ryEnv' = Cloned(ryEnv, c)
                                 /\ ryCalls' = ryCalls + poll_Retrying_calls(ryFut, c)
                                 /\ ryInflight' = ryInflight + poll_Retrying_calls(ryFut, c)
                                 /\ ryLog' = ryLog \o <<"ready", "call">>
    /\ UNCHANGED <<notRetryVars, ryPolicy, ryExt, ryResults, ryConsulted, ryTaken>>

RetryNext ==
    \/ Retry_call
    \/ Retry_poll_Called
    \/ Retry_poll_Checking
    \/ Retry_poll_Retrying

(***************************************************************************)
(* Properties of tower-retry                                               *)
(***************************************************************************)
LastResult == IF ryResults = <<>> THEN NoResult ELSE ryResults[Len(ryResults)]

\* every completed inner call of the external call failed
AlwaysFailing == \A i \in 1..Len(ryResults) : ryResults[i].kind = "Err"

\* every clone_request returned Some, no decision future and no poll_ready failed
WellBehaved == ryEnv.cloneNone = 0 /\ ~ryEnv.decisionErr /\ ~ryEnv.readyErr

\* an inner call was issued by the Retrying arm in this step
RetryIssued == ryExt' = ryExt /\ ryCalls' # ryCalls

\* C11 as stated, for k >= 1: against an always-failing service the call
\* completes with the k-th failure after exactly k+1 inner calls, k being
\* either the number of retries the policy grants or the number of the
\* failure on which it declines.
C11_KthFailure ==
    (RetryResolved /\ AlwaysFailing /\ WellBehaved /\ ryPolicy.budget >= 1)
    => \E k \in {ryPolicy.budget, ryPolicy.budget + 1} :
          ryCalls = k + 1 /\ ryFut.ret = CallErr(k)

\* C11 amended: with a policy that grants a retry on each of the first k
\* failures and declines on the next, the call against an always-failing
\* service makes exactly k+1 inner calls and completes with the last,
\* (k+1)-th, failure.
C11_LastFailure ==
    (RetryResolved /\ AlwaysFailing /\ WellBehaved)
    => /\ ryCalls = ryPolicy.budget + 1
       /\ Len(ryResults) = ryCalls
       /\ ryFut.ret = CallErr(ryPolicy.budget + 1)

\* a policy granting two retries ran out against an always-failing service
C11_Witness ==
    /\ RetryResolved /\ AlwaysFailing /\ WellBehaved
    /\ ryPolicy.budget = 2
    /\ ryCalls = 3

\* the policy allows 2 retries on errors; inner calls 1 to 3 fail, later ones succeed
Scenario12 ==
    /\ ryPolicy = [budget |-> 2, onOk |-> FALSE]
    /\ WellBehaved
    /\ \A i \in 1..Len(ryResults) : (ryResults[i].kind = "Err") = (i <= 3)

\* C12 as stated: in that scenario the call returns success after 3 inner calls.
C12_Success == (Scenario12 /\ RetryResolved) => (ryFut.ret.kind = "Ok" /\ ryCalls = 3)

\* C12 amended: in that scenario the call makes 3 inner calls (1 original +
\* 2 retries) and returns the error of the third; the success is not reached.
C12_ThirdFailure == (Scenario12 /\ RetryResolved) => (ryFut.ret = CallErr(3) /\ ryCalls = 3)

C12_Witness == Scenario12 /\ RetryResolved /\ Len(ryResults) = 3

\* C13: when no clone_request returned Some, the external call makes one
\* inner call, never consults Policy::retry, and resolves with that call's
\* result, whatever the policy and the outcome.
C13_NoCloneOneCall ==
    ryEnv.cloneSome = 0
    => /\ ryCalls <= 1
       /\ ryConsulted = 0
       /\ ryFut.state \in {"none", "Called"}
       /\ RetryResolved => (Len(ryResults) = 1 /\ ryFut.ret = ryResults[1])

\* a call without a clone resolved under a policy that would have retried it
C13_Witness ==
    /\ RetryResolved
    /\ ryEnv.cloneSome = 0
    /\ Policy_retry(ryFut.policy, ryFut.ret)

C14_State ==
    ryEnv.decisionErr
    => /\ RetryResolved
       /\ ryFut.ret = LastResult
       /\ ryCalls = Len(ryResults)
       /\ ryInflight = 0

C14_Step ==
    (ryEnv'.decisionErr /\ ~ryEnv.decisionErr)
    => /\ ryFut.state = "Checking"
       /\ ryFut'.ret = ryFut.pending
       /\ ryFut'.policy = ryFut.policy
       /\ ryCalls' = ryCalls

\* C14: when the decision future fails, the call resolves with the result
\* that was being checked, success or error, unmodified; no inner call
\* follows and the held policy stays.
C14_DecisionFailure == [](C14_State) /\ [][C14_Step]_vars

\* a failed decision returned the success it was checking
C14_Witness == ryEnv.decisionErr /\ ryFut.ret.kind = "Ok"

\* C15 as stated: every error the call resolves with is the result of its
\* last completed inner call, also when poll_ready fails in Retrying.
C15_ErrorIsLastResult ==
    (RetryResolved /\ ryFut.ret.kind # "Ok") => ryFut.ret = LastResult

\* C15 amended: every error the call resolves with is the result of its last
\* completed inner call, except when poll_ready fails in Retrying: then it is
\* that readiness error, and the result that was checked is discarded.
C15_ErrorIsLastResultOrReadiness ==
    (RetryResolved /\ ryFut.ret.kind # "Ok")
    => \/ ryFut.ret.kind = "Err" /\ ryFut.ret = LastResult
       \/ /\ ryFut.ret = ReadyErr(ryCalls + 1)
          /\ ryFut.state = "Retrying"
          /\ ryEnv.readyErr
          /\ ryFut.pending = NoResult

\* the call resolved with a readiness error after an inner call had succeeded
C15_Witness ==
    /\ RetryResolved
    /\ ryFut.ret.kind = "ReadyErr"
    /\ LastResult.kind = "Ok"

C18_State ==
    /\ ryInflight <= 1
    /\ Cardinality({i \in 1..Len(ryLog) : ryLog[i] = "call"}) = ryCalls
    /\ \A i \in 2..Len(ryLog) :
          ryLog[i] = "call"
          => /\ i >= 6
             /\ ryLog[i - 4] = "result"
             /\ ryLog[i - 3] = "retry"
             /\ ryLog[i - 2] = "decided"
             /\ ryLog[i - 1] = "ready"

C18_Step ==
    RetryIssued
    => /\ ryInflight = 0
       /\ ryInflight' = 1
       /\ ryCalls' = ryCalls + 1
       /\ ryFut.state = "Retrying"

\* C18: at most one inner call of an external call is in flight; every inner
\* call after the first is issued from Retrying with none in flight, and is
\* preceded, in this order, by the previous call's result, the policy
\* granting a retry, its decision future resolving, and poll_ready
\* returning Ready.
C18_OneInFlight == [](C18_State) /\ [][C18_Step]_vars

\* a retry is in flight
C18_Witness == ryCalls >= 2 /\ ryInflight = 1 /\ ryFut.state = "Called"

C19_Step ==
    ryExt' = ryExt
    => IF ryFut.state = "Checking" /\ ryFut'.state = "Retrying"
       THEN ryFut'.policy = Policy_next(ryFut.policy) /\ ryFut'.policy # ryFut.policy
       ELSE ryFut'.policy = ryFut.policy

\* C19: during an external call the held policy is replaced by the policy
\* the decision future resolved to, in the step that takes the retry
\* (Checking to Retrying); every other step (Policy::retry returning None,
\* a pending decision, a failed decision, the other arms) leaves it as it is.
C19_PolicyReplacedOnRetry == [][C19_Step]_vars

\* the held policy is no longer the one of the Retry instance
C19_Witness == ryFut.state = "Retrying" /\ ryFut.policy # ryPolicy

\* C20 as stated: a retry is issued only when the re-clone of the held
\* request returned Some.
C20_RetryOnlyWithClone == [][RetryIssued => ryFut'.request]_vars

C20_State ==
    (ryFut.state # "none" /\ ~ryFut.request)
    => /\ ryFut.state = "Called"
       /\ RetryResolved => (ryFut.ret = LastResult /\ Len(ryResults) = ryCalls)

C20_Step ==
    /\ RetryIssued
       => /\ ryFut.state = "Retrying" /\ ryFut.request
          /\ ryEnv'.cloneSome + ryEnv'.cloneNone = ryEnv.cloneSome + ryEnv.cloneNone + 1
          /\ ryFut'.request = (ryEnv'.cloneSome # ryEnv.cloneSome)
    /\ (ryExt' = ryExt /\ ~ryFut.request)
       => (ryCalls' = ryCalls /\ ryConsulted' = ryConsulted)

\* C20 amended: in Retrying the engine re-clones the held request and issues
\* the retry with the held request whatever the re-clone returns; when it
\* returned None, the call resolves with that retry's result, without
\* consulting the policy and without a further inner call.
C20_RetryThenNoMore == [](C20_State) /\ [][C20_Step]_vars

\* a retry whose re-clone returned None ended the call
C20_Witness == RetryResolved /\ ~ryFut.request /\ ryCalls >= 2

\* C23: no step of an external call, Retry::call and the polls of its
\* ResponseFuture included, changes the policy stored in the Retry that was
\* called; every call hands its future that policy, so a later call starts
\* from the policy the instance was built with whatever retries were taken.
C23_InstancePolicyKept ==
    [][/\ ryPolicy' = ryPolicy
       /\ ryExt' # ryExt => (ryFut'.policy = ryPolicy /\ ryFut'.state = "Called")]_vars

\* a second call starts with the instance's policy after the first took a retry
C23_Witness ==
    /\ ryExt = 2
    /\ ryTaken >= 1
    /\ ryCalls = 1
    /\ ryFut.state = "Called"
    /\ ryFut.policy = ryPolicy
    /\ ryPolicy.budget >= 1

(***************************************************************************)
(* tower-discover: List                                                    *)
(***************************************************************************)
Services == 1..NumServices

\* the lists of at most MaxList services
ServiceLists == UNION {[1..n -> Services] : n \in 0..MaxList}

\* Change::Insert(key, service) wrapped in Ok(Async::Ready(..))
Insert(key, service) == [kind |-> "Insert", key |-> key, service |-> service]
\* Ok(Async::NotReady)
ListNotReady == [kind |-> "NotReady", key |-> 0, service |-> 0]

\* List::new: services.into_iter().enumerate()
List_new(services) ==
    /\ lsServices = services
    /\ lsNext = 0
    /\ lsCount = 0
    /\ lsOut = <<>>

\* Enumerate pairing each item with the counter after the increment
Enumerate_index_mutant(count) == count + 1

\* Enumerate::next pairs the item with the counter before incrementing it
Enumerate_index(count) == count

\* List::poll
List_poll ==
    /\ Len(lsOut) < Len(lsServices) + MaxIdlePolls
    /\ IF lsNext < Len(lsServices)
       THEN /\ lsOut' = Append(lsOut, Insert(Enumerate_index(lsCount), lsServices[lsNext + 1]))
            /\ lsNext' = lsNext + 1
            /\ lsCount' = lsCount + 1
       ELSE /\ lsOut' = Append(lsOut, ListNotReady)
            /\ UNCHANGED <<lsNext, lsCount>>
    /\ UNCHANGED <<notListVars, lsServices>>

ListNext == List_poll

\* C16: the i-th poll of a List of n services returns Insert(i-1, i-th
\* service) for i <= n and NotReady for every i > n: one Insert per service,
\* in list order, with the keys 0..n-1, no Remove and no error.
C16_ListYieldsOnce ==
    \A i \in 1..Len(lsOut) :
        lsOut[i] = IF i <= Len(lsServices)
                   THEN Insert(i - 1, lsServices[i])
                   ELSE ListNotReady

\* a list of several services was polled past its end
C16_Witness ==
    /\ Len(lsServices) >= 2
    /\ Len(lsOut) = Len(lsServices) + MaxIdlePolls
    /\ lsOut[Len(lsOut)] = ListNotReady

\* the components the specification in hand does not step hold these
DefaultPolicy == [budget |-> 0, onOk |-> FALSE]

Init == Filter_new /\ Reconnect_new /\ Retry_new(DefaultPolicy) /\ List_new(<<>>)

\* a Retry built with any policy
InitRetry ==
    /\ Filter_new /\ Reconnect_new /\ List_new(<<>>)
    /\ \E policy \in Policies : Retry_new(policy)

\* a List built from any list of services
InitList ==
    /\ Filter_new /\ Reconnect_new /\ Retry_new(DefaultPolicy)
    /\ \E services \in ServiceLists : List_new(services)

SpecFilter == Init /\ [][FilterNext]_vars

SpecReconnect == Init /\ [][ReconnectNext]_vars

\* the steps of Filter::poll_ready
Filter_poll_ready == Filter_poll_ready_register \/ Filter_poll_ready_load

\* Filter with a caller that keeps polling its readiness
SpecFilterLive == Init /\ [][FilterNext]_vars /\ WF_vars(Filter_poll_ready)

\* Reconnect with creations beyond MaxCreate, the thread inside poll_ready
\* running on until it returns
ReconnectLiveNext ==
    \/ Reconnect_poll_ready
    \/ Reconnect_call
    \/ \E i \in 1..Len(rresp) : Reconnect_ResponseFuture_poll(i)

SpecReconnectLive == Init /\ [][ReconnectLiveNext]_vars /\ WF_vars(Reconnect_poll_ready)

SpecRetry == InitRetry /\ [][RetryNext]_vars

SpecList == InitList /\ [][ListNext]_vars

=============================================================================
